---- MODULE Spec2Model ----
(***************************************************************************)
(* Model of the MTA GTFS ingestion sources (dlt_mta_rtf):                  *)
(*   - mta_gtfs_realtime.py: FEED_URLS, _download_feed, the three          *)
(*     _iter_* generators and the three resources of mta_rt_source;        *)
(*   - mta_gtfs_static.py: _iter_csv (csv.DictReader plus the empty-string *)
(*     coercion) and the resources of mta_static_source.                   *)
(* Generators are lazy: one Yield step is one pull of the consumer.        *)
(* Three specifications: Spec (the real-time resources against their       *)
(* upstreams), SpecNorm (an _iter_* generator on a given snapshot) and     *)
(* SpecStatic (a static resource reading its member).                      *)
(***************************************************************************)
EXTENDS Integers, Sequences, FiniteSets, TLC

VARIABLES
    \* ---- real-time source ----
    feeds,          \* the `feeds` argument of mta_rt_source
    selected,       \* the closure variable `selected`
    kind,           \* the resource being iterated ("none" before the first)
    ran,            \* resources whose iteration completed normally
    pc,             \* position of the running resource generator
    idx,            \* index in `selected` of the loop variable feed_name
    response,       \* the requests.Response of the fetch in progress
    feed_msg,       \* the decoded FeedMessage being normalized
    as_of,          \* the local `as_of` of the running _iter_* generator
    pos,            \* number of entities of feed_msg the loop has consumed
    delivered,      \* records yielded to the consumer by the running resource
    deliveredFetch, \* for each delivered record, the index of its fetch
    now,            \* the UTC clock
    error,          \* the exception that ended the iteration
    fetches,        \* per resource, the feed names whose GET was attempted
    responses,      \* responses received by the running resource, in order
    decoded,        \* status of the response whose body the decoder was given
                    \* in the fetch in progress (0: none)
    \* ---- normalizer on its own ----
    nIn,            \* [feed_name, feed_msg, as_of, kind] given to an _iter_*
    nOut,           \* the records it produced
    \* ---- static source ----
    spc,            \* position of the static extraction
    table,          \* the resource selected by name
    lookup,         \* what selecting it returned
    header,         \* DictReader.fieldnames of the open member
    source,         \* rows csv.reader has returned so far (after the header)
    yielded         \* dicts _iter_csv has yielded so far

rtVars == <<feeds, selected, kind, ran, pc, idx, response, feed_msg, as_of, pos,
            delivered, deliveredFetch, now, error, fetches, responses,
            decoded>>
normVars == <<nIn, nOut>>
staticVars == <<spc, table, lookup, header, source, yielded>>
vars == <<rtVars, normVars, staticVars>>

\* ------------------------------------------------------------------ bounds
MaxSel == 2          \* longest explicit feed selection
MaxEntities == 2     \* most entities in one fetched snapshot
MaxRunEntities == 2  \* most entities fetched during one resource iteration
MaxClock == 1        \* last clock value
MaxSnapshot == 3     \* most entities of a snapshot given to the normalizer alone
MaxRows == 2         \* most data rows read from one member
MaxFields == 3       \* most fields in one data row

\* ------------------------------------------------------- sequence helpers
Range(s) == {s[i] : i \in DOMAIN s}

SeqsUpTo(S, n) == UNION {[1..k -> S] : k \in 0..n}

\* --------------------------------------------------------- feed registry
KnownFeeds == <<"ace", "bdfm", "g", "jz", "l", "nqrw", "main", "sir">>

FEED_URLS == [n \in Range(KnownFeeds) |-> "nyct/" \o n]

\* `feeds` is None or a list
NoFeeds == [given |-> FALSE, names |-> <<>>]
GivenFeeds(names) == [given |-> TRUE, names |-> names]

\* names a caller passes: two registered feeds and one that is not
CallerNames == {"ace", "g", "xyz"}
\* feeds=None (what load_mta_pipeline.run passes by default) or a list of names,
\* the empty list included
FeedsInputs == {NoFeeds} \cup {GivenFeeds(s) : s \in SeqsUpTo(CallerNames, MaxSel)}

RECURSIVE Dedup(_)
Dedup(names) ==
    IF names = <<>> THEN <<>>
    ELSE LET front == SubSeq(names, 1, Len(names) - 1)
             last == names[Len(names)]
         IN IF last \in Range(front) THEN Dedup(front)
            ELSE Append(Dedup(front), last)

\* as if the selection were turned into a set of names first
Selected_dedup(f) == IF f.given /\ f.names # <<>> THEN Dedup(f.names) ELSE KnownFeeds

\* selected = feeds or list(FEED_URLS.keys())
Selected(f) == IF f.given /\ f.names # <<>> THEN f.names ELSE KnownFeeds

\* ------------------------------------------------------ protobuf messages
KindFields == <<"trip_update", "vehicle", "alert">>
Kinds == Range(KindFields)

Unset == [set |-> FALSE, msg |-> <<>>]
SetTo(m) == [set |-> TRUE, msg |-> m]

\* the sub-message an upstream sends for each field: (name, value) pairs
SubMessage(k) ==
    CASE k = "trip_update" -> << <<"trip", "T1">>, <<"delay", "60">> >>
      [] k = "vehicle"     -> << <<"current_status", "STOPPED_AT">> >>
      [] k = "alert"       -> <<>>

Entity(id, has) == [id |-> id,
                    trip_update |-> IF "trip_update" \in has THEN SetTo(SubMessage("trip_update")) ELSE Unset,
                    vehicle |-> IF "vehicle" \in has THEN SetTo(SubMessage("vehicle")) ELSE Unset,
                    alert |-> IF "alert" \in has THEN SetTo(SubMessage("alert")) ELSE Unset]

\* entities fetched in the pipeline: one of each variant
PipelineEntities == {Entity("E1", {"trip_update"}), Entity("E2", {"vehicle"}),
                     Entity("E3", {"alert"})}
\* entities given to the normalizer alone: any combination of populated fields
AllEntities == {Entity(id, has) : id \in {"E1", "E2"}, has \in SUBSET Kinds}

FeedMessage(entities) == [entity |-> entities]

\* response bodies: an encoded FeedMessage, or bytes that do not parse
Encoded(m) == [parsable |-> TRUE, msg |-> m]
Garbage == [parsable |-> FALSE, msg |-> FeedMessage(<<>>)]

\* as if a parse failure were swallowed and an empty message returned
ParseFromString_lenient(content) == [ok |-> TRUE, feed |-> content.msg]

\* FeedMessage.ParseFromString
ParseFromString(content) == [ok |-> content.parsable, feed |-> content.msg]

\* as if presence were tested by truthiness (`if not entity.alert`)
HasField_truthy(entity, name) == entity[name].set /\ entity[name].msg # <<>>

\* entity.HasField(name)
HasField(entity, name) == entity[name].set

\* MessageToDict(msg, preserving_proto_field_name=True)
MessageToDict(m) ==
    [n \in {m[i][1] : i \in DOMAIN m} |->
        LET i == CHOOSE j \in DOMAIN m : m[j][1] = n IN m[i][2]]

\* the dict each _iter_* yields for one entity
TripUpdateRecord(feed_name, entity, asOf) ==
    [feed |-> feed_name, entity_id |-> entity.id, as_of |-> asOf,
     trip_update |-> MessageToDict(entity.trip_update.msg)]

VehicleRecord(feed_name, entity, asOf) ==
    [feed |-> feed_name, entity_id |-> entity.id, as_of |-> asOf,
     vehicle |-> MessageToDict(entity.vehicle.msg)]

AlertRecord(feed_name, entity, asOf) ==
    [feed |-> feed_name, entity_id |-> entity.id, as_of |-> asOf,
     alert |-> MessageToDict(entity.alert.msg)]

\* as if utcnow() were called inside the loop, once per record
RECURSIVE _iter_trip_updates_late(_, _, _)
_iter_trip_updates_late(feed_name, entities, asOf) ==
    IF entities = <<>> THEN <<>>
    ELSE IF ~HasField(Head(entities), "trip_update")
         THEN _iter_trip_updates_late(feed_name, Tail(entities), asOf)
         ELSE <<TripUpdateRecord(feed_name, Head(entities), now)>>
              \o _iter_trip_updates_late(feed_name, Tail(entities), asOf)

RECURSIVE _iter_trip_updates(_, _, _)
_iter_trip_updates(feed_name, entities, asOf) ==
    IF entities = <<>> THEN <<>>
    ELSE IF ~HasField(Head(entities), "trip_update")
         THEN _iter_trip_updates(feed_name, Tail(entities), asOf)
         ELSE <<TripUpdateRecord(feed_name, Head(entities), asOf)>>
              \o _iter_trip_updates(feed_name, Tail(entities), asOf)

RECURSIVE _iter_vehicle_positions(_, _, _)
_iter_vehicle_positions(feed_name, entities, asOf) ==
    IF entities = <<>> THEN <<>>
    ELSE IF ~HasField(Head(entities), "vehicle")
         THEN _iter_vehicle_positions(feed_name, Tail(entities), asOf)
         ELSE <<VehicleRecord(feed_name, Head(entities), asOf)>>
              \o _iter_vehicle_positions(feed_name, Tail(entities), asOf)

RECURSIVE _iter_alerts(_, _, _)
_iter_alerts(feed_name, entities, asOf) ==
    IF entities = <<>> THEN <<>>
    ELSE IF ~HasField(Head(entities), "alert")
         THEN _iter_alerts(feed_name, Tail(entities), asOf)
         ELSE <<AlertRecord(feed_name, Head(entities), asOf)>>
              \o _iter_alerts(feed_name, Tail(entities), asOf)

\* as if vehicle_positions had kept the generator of the resource it was
\* copied from
IterFor_copied(k, feed_name, entities, asOf) ==
    CASE k = "trip_update" -> _iter_trip_updates(feed_name, entities, asOf)
      [] k = "vehicle"     -> _iter_trip_updates(feed_name, entities, asOf)
      [] k = "alert"       -> _iter_alerts(feed_name, entities, asOf)

\* the generator each resource delegates to with `yield from`
IterFor(k, feed_name, entities, asOf) ==
    CASE k = "trip_update" -> _iter_trip_updates(feed_name, entities, asOf)
      [] k = "vehicle"     -> _iter_vehicle_positions(feed_name, entities, asOf)
      [] k = "alert"       -> _iter_alerts(feed_name, entities, asOf)

\* ------------------------------------------------------------ the clock
\* datetime.datetime.utcnow() advances on its own
Tick ==
    /\ now < MaxClock
    /\ now' = now + 1
    /\ UNCHANGED <<feeds, selected, kind, ran, pc, idx, response, feed_msg, as_of,
                   pos, delivered, deliveredFetch, error, fetches, responses,
                   decoded>>
    /\ UNCHANGED <<normVars, staticVars>>

\* ------------------------------------------------------- real-time source
NoResponse == [status |-> 0, content |-> Garbage]
NoError == [type |-> "none", name |-> "", status |-> 0]

\* statuses an upstream answers with (requests follows redirects itself;
\* a 304 is handed to the caller as the final response)
Statuses == {200, 304, 404, 500}

\* bodies an upstream answers with: a 200 carries a feed message of at most
\* `room` entities or bytes that do not parse; a 304 carries no feed (bytes
\* that do not parse, or a message without entities); an error status carries
\* an error page
Bodies(status, room) ==
    CASE status = 200 ->
           {Garbage} \cup
           {Encoded(FeedMessage(es)) :
              es \in SeqsUpTo(PipelineEntities,
                              IF room < MaxEntities THEN room ELSE MaxEntities)}
      [] status = 304 -> {Garbage, Encoded(FeedMessage(<<>>))}
      [] OTHER -> {Garbage}

\* entities the running resource has received so far
RECURSIVE Received(_)
Received(rs) ==
    IF rs = <<>> THEN 0 ELSE Len(Head(rs).content.msg.entity) + Received(Tail(rs))

\* as if raise_for_status() were not called
raise_for_status_never(status) == FALSE

\* Response.raise_for_status(): TRUE when it raises HTTPError
raise_for_status(status) == 400 <= status /\ status < 600

\* pipeline.run(rt_src) iterates the resources mta_rt_source returned, here one
\* after the other in the order of the returned list; they share nothing but
\* `selected`, which none of them writes
StartResource(k) ==
    /\ pc \in {"idle", "done"}
    /\ Cardinality(ran) < Len(KindFields)
    /\ k = KindFields[Cardinality(ran) + 1]
    /\ kind' = k
    /\ idx' = 1
    /\ pc' = "request"
    /\ delivered' = <<>>
    /\ deliveredFetch' = <<>>
    /\ responses' = <<>>
    /\ UNCHANGED <<feeds, selected, ran, response, feed_msg, as_of, pos, now, error,
                   fetches, decoded>>
    /\ UNCHANGED <<normVars, staticVars>>

\* _download_feed once requests.get has returned `resp`: raise_for_status(),
\* then ParseFromString(response.content); `decoded` is the status of the
\* response whose content reached the decoder (0: the decoder was not called)
_download_feed(resp) ==
    IF raise_for_status(resp.status)
    THEN [raised |-> "HTTPError", decoded |-> 0, feed |-> FeedMessage(<<>>)]
    ELSE LET parsed == ParseFromString(resp.content) IN
         IF ~parsed.ok
         THEN [raised |-> "DecodeError", decoded |-> resp.status,
               feed |-> FeedMessage(<<>>)]
         ELSE [raised |-> "none", decoded |-> resp.status, feed |-> parsed.feed]

\* one turn of `for feed_name in selected`: FEED_URLS[feed_name], the GET,
\* _download_feed, and the start of the generator `yield from` delegates to
\* (as_of = utcnow())
FetchNext ==
    /\ pc = "request"
    /\ LET feed_name == selected[idx] IN
         IF feed_name \notin DOMAIN FEED_URLS
         THEN /\ pc' = "failed"
              /\ error' = [type |-> "KeyError", name |-> feed_name, status |-> 0]
              /\ UNCHANGED <<response, fetches, responses, feed_msg, as_of, pos, decoded>>
         ELSE /\ fetches' = [fetches EXCEPT ![kind] = Append(@, feed_name)]
              /\ \/ /\ pc' = "failed"
                    /\ error' = [type |-> "ConnectionError", name |-> feed_name, status |-> 0]
                    /\ UNCHANGED <<response, responses, feed_msg, as_of, pos, decoded>>
                 \/ \E status \in Statuses :
                    \E content \in Bodies(status, MaxRunEntities - Received(responses)) :
                      LET resp == [status |-> status, content |-> content]
                          got == _download_feed(resp)
                      IN /\ responses' = Append(responses, [feed |-> feed_name,
                                                            content |-> content])
                         /\ decoded' = got.decoded
                         /\ IF got.raised # "none"
                            THEN /\ pc' = "failed"
                                 /\ response' = resp
                                 /\ error' = [type |-> got.raised, name |-> feed_name,
                                              status |-> status]
                                 /\ UNCHANGED <<feed_msg, as_of, pos>>
                            ELSE /\ pc' = "yield"
                                 /\ response' = NoResponse
                                 /\ feed_msg' = got.feed
                                 /\ as_of' = now
                                 /\ pos' = 0
                                 /\ UNCHANGED error
    /\ UNCHANGED <<feeds, selected, kind, ran, idx, delivered, deliveredFetch, now>>
    /\ UNCHANGED <<normVars, staticVars>>

\* what the running generator still has to yield
Pending(p) ==
    IterFor(kind, selected[idx],
            SubSeq(feed_msg.entity, p + 1, Len(feed_msg.entity)), as_of)

\* one pull of the consumer that the running generator answers with a record
Yield ==
    /\ pc = "yield"
    /\ Pending(pos) # <<>>
    /\ delivered' = Append(delivered, Head(Pending(pos)))
    /\ deliveredFetch' = Append(deliveredFetch, idx)
    /\ pos' = CHOOSE p \in (pos + 1)..Len(feed_msg.entity) :
                /\ Len(Pending(p)) = Len(Pending(pos)) - 1
                /\ \A q \in (pos + 1)..(p - 1) : Len(Pending(q)) = Len(Pending(pos))
    /\ UNCHANGED <<feeds, selected, kind, ran, pc, idx, response, feed_msg, as_of,
                   now, error, fetches, responses, decoded>>
    /\ UNCHANGED <<normVars, staticVars>>

\* the generator is exhausted: the for loop of the resource moves on
NextFeed ==
    /\ pc = "yield"
    /\ Pending(pos) = <<>>
    /\ idx' = idx + 1
    /\ feed_msg' = FeedMessage(<<>>)
    /\ as_of' = 0
    /\ pos' = 0
    /\ decoded' = 0
    /\ IF idx + 1 > Len(selected)
       THEN /\ pc' = "done"
            /\ ran' = ran \cup {kind}
       ELSE /\ pc' = "request"
            /\ UNCHANGED ran
    /\ UNCHANGED <<feeds, selected, kind, response, delivered,
                   deliveredFetch, now, error, fetches, responses>>
    /\ UNCHANGED <<normVars, staticVars>>

NormIdle == /\ nIn = [feed_name |-> "", entities |-> <<>>, as_of |-> 0, kind |-> "none"]
            /\ nOut = <<>>

StaticIdle == /\ spc = "idle"
              /\ table = ""
              /\ lookup = [found |-> FALSE, keyed |-> FALSE, primary_key |-> "",
                           write_disposition |-> "", member |-> ""]
              /\ header = <<>>
              /\ source = <<>>
              /\ yielded = <<>>

RtIdle(f) ==
    /\ feeds = f
    /\ selected = Selected(f)
    /\ kind = "none"
    /\ ran = {}
    /\ pc = "idle"
    /\ idx = 1
    /\ response = NoResponse
    /\ feed_msg = FeedMessage(<<>>)
    /\ as_of = 0
    /\ pos = 0
    /\ delivered = <<>>
    /\ deliveredFetch = <<>>
    /\ now = 0
    /\ error = NoError
    /\ fetches = [k \in Kinds |-> <<>>]
    /\ responses = <<>>
    /\ decoded = 0

\* mta_rt_source(feeds=...) has returned its three resources
Init ==
    /\ \E f \in FeedsInputs : RtIdle(f)
    /\ NormIdle
    /\ StaticIdle

Next ==
    \/ \E k \in Kinds : StartResource(k)
    \/ FetchNext
    \/ Yield
    \/ NextFeed
    \/ Tick

Spec == Init /\ [][Next]_vars

\* ------------------------------------------------- the normalizer alone
\* a decoded snapshot is about to be handed to one of the _iter_* generators
InitNorm ==
    /\ RtIdle(NoFeeds)
    /\ StaticIdle
    /\ \E es \in SeqsUpTo(AllEntities, MaxSnapshot), t \in 0..MaxClock :
         nIn = [feed_name |-> "ace", entities |-> es, as_of |-> t, kind |-> "none"]
    /\ nOut = <<>>

\* list(_iter_<k>(feed_name, feed_msg)), as often as the caller likes
Normalize(k) ==
    /\ nIn' = [nIn EXCEPT !.kind = k]
    /\ nOut' = IterFor(k, nIn.feed_name, nIn.entities, nIn.as_of)
    /\ UNCHANGED <<rtVars, staticVars>>

NextNorm == \E k \in Kinds : Normalize(k)

SpecNorm == InitNorm /\ [][NextNorm]_vars

\* ----------------------------------------------------------- static source
\* Python values of a row dict: a str, None, or the list csv.DictReader files
\* under restkey
Str(x) == [s |-> x]
None == [none |-> TRUE]
List(l) == [list |-> l]

\* DictReader's restkey (None): the key of the surplus fields; no column has it
RestKey == "<None>"

\* as if stop_times had been declared like its neighbours
StaticResources_allmerge ==
    << [name |-> "routes", keyed |-> TRUE, primary_key |-> "route_id",
        write_disposition |-> "merge", member |-> "routes.txt"],
       [name |-> "stops", keyed |-> TRUE, primary_key |-> "stop_id",
        write_disposition |-> "merge", member |-> "stops.txt"],
       [name |-> "trips", keyed |-> TRUE, primary_key |-> "trip_id",
        write_disposition |-> "merge", member |-> "trips.txt"],
       [name |-> "stop_times", keyed |-> TRUE, primary_key |-> "trip_id",
        write_disposition |-> "merge", member |-> "stop_times.txt"],
       [name |-> "calendar", keyed |-> TRUE, primary_key |-> "service_id",
        write_disposition |-> "merge", member |-> "calendar.txt"] >>

\* the resources mta_static_source returns, with the hints of their decorators
StaticResources ==
    << [name |-> "routes", keyed |-> TRUE, primary_key |-> "route_id",
        write_disposition |-> "merge", member |-> "routes.txt"],
       [name |-> "stops", keyed |-> TRUE, primary_key |-> "stop_id",
        write_disposition |-> "merge", member |-> "stops.txt"],
       [name |-> "trips", keyed |-> TRUE, primary_key |-> "trip_id",
        write_disposition |-> "merge", member |-> "trips.txt"],
       [name |-> "stop_times", keyed |-> FALSE, primary_key |-> "",
        write_disposition |-> "append", member |-> "stop_times.txt"],
       [name |-> "calendar", keyed |-> TRUE, primary_key |-> "service_id",
        write_disposition |-> "merge", member |-> "calendar.txt"] >>

NotFound == [found |-> FALSE, keyed |-> FALSE, primary_key |-> "",
             write_disposition |-> "", member |-> ""]

\* static_src.<name>: the resource of that name and its hints, or a failure
ResourceNamed(name) ==
    IF \E i \in DOMAIN StaticResources : StaticResources[i].name = name
    THEN LET r == StaticResources[CHOOSE i \in DOMAIN StaticResources :
                                      StaticResources[i].name = name]
         IN [found |-> TRUE, keyed |-> r.keyed, primary_key |-> r.primary_key,
             write_disposition |-> r.write_disposition, member |-> r.member]
    ELSE NotFound

\* names a caller asks for: the five tables and one that is none of them
TableNames == {"routes", "stops", "trips", "stop_times", "calendar", "shapes"}

\* header rows of the members, and the fields of their data rows
Columns == <<"id", "name", "note">>
Headers == {SubSeq(Columns, 1, n) : n \in 1..Len(Columns)}
FieldValues == {"", "1"}
Rows == SeqsUpTo(FieldValues, MaxFields)

\* csv.DictReader.__next__ for one non-blank row: dict(zip(fieldnames, row)),
\* surplus fields under restkey, missing fields set to restval (None)
DictReaderRow(fieldnames, row) ==
    LET lf == Len(fieldnames)
        lr == Len(row)
        keys == Range(fieldnames) \cup (IF lf < lr THEN {RestKey} ELSE {})
    IN [k \in keys |->
          IF k = RestKey
          THEN List(SubSeq(row, lf + 1, lr))
          ELSE LET i == CHOOSE j \in 1..lf : fieldnames[j] = k
               IN IF i <= lr THEN Str(row[i]) ELSE None]

\* as if the row were yielded as read
Coerce_keep(v) == v

\* v if v != "" else None
Coerce(v) == IF v = Str("") THEN None ELSE v

\* {k: (v if v != "" else None) for k, v in row.items()}
RowDict(fieldnames, row) ==
    LET d == DictReaderRow(fieldnames, row) IN [k \in DOMAIN d |-> Coerce(d[k])]

\* a run picks a resource of the source by name
SelectResource(name) ==
    /\ spc = "idle"
    /\ table' = name
    /\ lookup' = ResourceNamed(name)
    /\ spc' = IF ResourceNamed(name).found THEN "selected" ELSE "failed"
    /\ UNCHANGED <<header, source, yielded>>
    /\ UNCHANGED <<rtVars, normVars>>

\* _iter_csv: z.open(member), csv.DictReader(text); its first row is the header
OpenMember ==
    /\ spc = "selected"
    /\ \E h \in Headers : header' = h
    /\ spc' = "reading"
    /\ UNCHANGED <<table, lookup, source, yielded>>
    /\ UNCHANGED <<rtVars, normVars>>

\* for row in reader: yield {...}; DictReader passes over blank rows
ReadRow ==
    /\ spc = "reading"
    /\ Len(source) < MaxRows
    /\ \E row \in Rows :
         /\ source' = Append(source, row)
         /\ yielded' = IF row = <<>> THEN yielded
                       ELSE Append(yielded, RowDict(header, row))
    /\ UNCHANGED <<spc, table, lookup, header>>
    /\ UNCHANGED <<rtVars, normVars>>

\* the reader is exhausted
EndOfFile ==
    /\ spc = "reading"
    /\ spc' = "eof"
    /\ UNCHANGED <<table, lookup, header, source, yielded>>
    /\ UNCHANGED <<rtVars, normVars>>

\* mta_static_source() has returned its five resources
InitStatic ==
    /\ RtIdle(NoFeeds)
    /\ NormIdle
    /\ StaticIdle

NextStatic ==
    \/ \E name \in TableNames : SelectResource(name)
    \/ OpenMember
    \/ ReadRow
    \/ EndOfFile

SpecStatic == InitStatic /\ [][NextStatic]_vars

\* ======================================================== properties
\* indices of the entities of `es` whose field k is populated
Matching(es, k) == {i \in DOMAIN es : es[i][k].set}

\* r is the record of entity e for kind k: feed name, entity id and the
\* sub-message's fields under their own names, and nothing else
RecordOf(r, feed_name, e, k) ==
    /\ DOMAIN r = {"feed", "entity_id", "as_of", k}
    /\ r.feed = feed_name
    /\ r.entity_id = e.id
    /\ DOMAIN r[k] = {e[k].msg[i][1] : i \in DOMAIN e[k].msg}
    /\ \A i \in DOMAIN e[k].msg : r[k][e[k].msg[i][1]] = e[k].msg[i][2]

\* out[from + 1 .. from + n] are the records of the n entities of `es` whose
\* field k is populated, in the order of `es`
RecordsOf(out, from, feed_name, es, k) ==
    LET M == Matching(es, k) IN
    /\ Len(out) >= from + Cardinality(M)
    /\ \A i \in M :
         RecordOf(out[from + Cardinality({j \in M : j <= i})], feed_name, es[i], k)

\* the selection the caller asked for: the names given, or every known feed
AskedFor ==
    IF feeds.given /\ Len(feeds.names) > 0
    THEN feeds.names
    ELSE <<"ace", "bdfm", "g", "jz", "l", "nqrw", "main", "sir">>

\* from position `from` on, the consumer holds exactly the records of the
\* fetched feeds i..n, feed by feed
RECURSIVE DeliveredFrom(_, _, _)
DeliveredFrom(i, n, from) ==
    IF i > n THEN Len(delivered) = from
    ELSE LET es == responses[i].content.msg.entity
             c == Cardinality(Matching(es, kind))
         IN /\ RecordsOf(delivered, from, responses[i].feed, es, kind)
            /\ \A j \in (from + 1)..(from + c) : deliveredFetch[j] = i
            /\ DeliveredFrom(i + 1, n, from + c)

\* the consumer holds exactly the records of the first n fetched feeds
DeliveredComplete(n) == Len(responses) >= n /\ DeliveredFrom(1, n, 0)

\* C1: normalizing a snapshot for kind K yields exactly one record per entity
\* whose field K is populated, in the snapshot's order, duplicates kept, the
\* others skipped; no such entity gives the empty sequence.
C1_NormalizeExactlyMatching ==
    nIn.kind # "none" =>
        /\ Len(nOut) = Cardinality(Matching(nIn.entities, nIn.kind))
        /\ RecordsOf(nOut, 0, nIn.feed_name, nIn.entities, nIn.kind)
        /\ \A i \in DOMAIN nOut : nOut[i].as_of = nIn.as_of

\* an alert snapshot with the same entity twice and an entity of another kind
C1_Witness ==
    /\ nIn.kind = "alert"
    /\ Len(nIn.entities) = 3
    /\ Len(nOut) = 2
    /\ nOut[1] = nOut[2]

\* C2: any two records delivered from the same fetch carry the same as_of.
C2_SameFetchSameAsOf ==
    \A i, j \in DOMAIN delivered :
        deliveredFetch[i] = deliveredFetch[j] =>
            /\ delivered[i].feed = delivered[j].feed
            /\ delivered[i].as_of = delivered[j].as_of

\* two records of one fetch, the second delivered after the clock moved on
C2_Witness ==
    /\ Len(delivered) >= 2
    /\ deliveredFetch[1] = deliveredFetch[2]
    /\ now > delivered[2].as_of

\* C3: an unknown feed name fails the request before any fetch is performed
\* and before any record is produced.
C3_FailsFast ==
    error.type = "KeyError" => fetches[kind] = <<>> /\ delivered = <<>>

C6_RejectsMalformedRows ==
    LET nb == SelectSeq(source, LAMBDA r : r # <<>>) IN
    \A i \in DOMAIN yielded : i <= Len(nb) => Len(nb[i]) = Len(header)

\* C7: every non-blank data row gives one dict, in source order; a row with
\* as many fields as the header maps each column to its field, "" to None.
C7_RowsCoerced ==
    LET nb == SelectSeq(source, LAMBDA r : r # <<>>) IN
    /\ Len(yielded) = Len(nb)
    /\ \A i \in DOMAIN nb :
         Len(nb[i]) = Len(header) =>
             /\ DOMAIN yielded[i] = Range(header)
             /\ \A c \in DOMAIN header :
                  /\ yielded[i][header[c]] # Str("")
                  /\ yielded[i][header[c]] =
                       IF nb[i][c] = "" THEN None ELSE Str(nb[i][c])

\* the row "1,," under the header "id,name,note"
C7_Witness ==
    /\ header = <<"id", "name", "note">>
    /\ source = << <<"1", "", "">> >>
    /\ yielded = << [k \in {"id", "name", "note"} |->
                       IF k = "id" THEN Str("1") ELSE None] >>

\* C8: the five tables and their disciplines; any other name is not found;
\* what a lookup returned stays as it is while the member is read.
C8_TablePolicy ==
    /\ {StaticResources[i].name : i \in DOMAIN StaticResources}
         = {"routes", "stops", "trips", "stop_times", "calendar"}
    /\ spc # "idle" =>
         CASE table = "routes" ->
                lookup.found /\ lookup.keyed /\ lookup.primary_key = "route_id"
                /\ lookup.write_disposition = "merge"
           [] table = "stops" ->
                lookup.found /\ lookup.keyed /\ lookup.primary_key = "stop_id"
                /\ lookup.write_disposition = "merge"
           [] table = "trips" ->
                lookup.found /\ lookup.keyed /\ lookup.primary_key = "trip_id"
                /\ lookup.write_disposition = "merge"
           [] table = "calendar" ->
                lookup.found /\ lookup.keyed /\ lookup.primary_key = "service_id"
                /\ lookup.write_disposition = "merge"
           [] table = "stop_times" ->
                lookup.found /\ ~lookup.keyed /\ lookup.write_disposition = "append"
           [] OTHER -> ~lookup.found /\ spc = "failed"

\* stop_times was looked up and its member read to the end
C8_Witness ==
    /\ spc = "eof"
    /\ table = "stop_times"
    /\ yielded # <<>>

\* C9: when a fetch fails, the consumer holds the records of every feed
\* fetched before it, complete and in order.
C9_EarlierFeedsDelivered ==
    (pc = "failed" /\ error.type \in {"ConnectionError", "HTTPError", "DecodeError"})
        => DeliveredComplete(idx - 1)

\* the second feed failed after the first one's records were delivered
C9_Witness ==
    /\ pc = "failed"
    /\ error.type = "HTTPError"
    /\ idx = 2
    /\ Len(delivered) = 2

\* C10: a resource fetches the selection's entries one by one, in order, each
\* after the records of the feeds before it were yielded; every resource
\* fetches every entry itself.
C10_OneFetchPerEntry ==
    /\ kind # "none" =>
         /\ Len(fetches[kind]) <= Len(AskedFor)
         /\ fetches[kind] = SubSeq(AskedFor, 1, Len(fetches[kind]))
    /\ pc = "request" =>
         /\ fetches[kind] = SubSeq(AskedFor, 1, idx - 1)
         /\ DeliveredComplete(idx - 1)
    /\ pc = "yield" => Len(fetches[kind]) = idx
    /\ \A k \in ran : fetches[k] = AskedFor

\* the three resources completed over a selection naming one feed twice
C10_Witness ==
    /\ ran = Kinds
    /\ feeds.given
    /\ Len(feeds.names) = 2
    /\ feeds.names[1] = feeds.names[2]

====
